---- MODULE Spec2Model ----
(***************************************************************************)
(* A model of CodingSession2/TwoLayerPerceptron.ipynb: the one-hot label   *)
(* encoder, the mini-batch generator, the batched evaluator, the two-layer *)
(* network and the training loop.                                          *)
(*                                                                         *)
(* A floating-point number is modelled as a number of finite precision and *)
(* finite range: the integer k stands for k / Scale, every product and     *)
(* quotient is rounded to the nearest such number, and every result        *)
(* saturates at +-FloatMax / Scale.  Python indices and labels are 0-based *)
(* values; TLA+ sequences are 1-based, so element i of a Python array a is *)
(* a[i + 1] here.                                                          *)
(***************************************************************************)
EXTENDS Integers, Sequences, FiniteSets, TLC

\* ------------------------------------------------------------------ bounds
\* Largest data set handed to the mini-batch generator on its own.
MaxGenN == 17
\* Largest mini-batch size handed to the mini-batch generator on its own.
MaxGenB == 6
\* Largest number of epochs (generator re-creations) explored.
MaxEpochs == 2
\* Seeds 0..MaxSeed are explored for every seedable random source.
MaxSeed == 3
\* Number of states of the modelled pseudo-random stream.
StreamModulus == 16
\* Longest label vector handed to the label encoder on its own.
MaxEncN == 3
\* Largest class count handed to the label encoder on its own.
MaxEncC == 3
\* The network's dimensions (784 features, 50 hidden units and 10 classes in
\* the notebook), scaled down.
NumFeatures == 2
NumHidden == 2
NumLabels == 2
\* Largest data set handed to the evaluator and to train.
MaxN == 4
\* Largest batch size handed to the evaluator and to train.
MaxB == 3
\* Largest validation set and largest evaluation batch size handed to train.
MaxValidN == 1
MaxEvalB == 2
\* Seeds 0..MaxModelSeed are explored for the model handed to train.
MaxModelSeed == 1
\* Seeds 0..MaxShuffleSeed are given to np.random.seed before train.
MaxShuffleSeed == 1
\* Representable numbers per unit, and the largest representable magnitude
\* (in steps of 1 / Scale).
Scale == 16
FloatMax == 30000
\* Most examples and most classes handed to mse_loss on its own.
MaxLossN == 2
MaxLossC == 2
\* Most rows (N), input columns (D) and output columns (M) of the arrays
\* handed to a layer function on its own.
MaxLayerN == 2
MaxLayerD == 2
MaxLayerM == 2

\* ------------------------------------------------------------- cache ledger
\* The layer caches the passes of train have created and consumed so far
\* (counts), and under last the arguments, the created caches and the consumed
\* caches of its latest call of nnet.loss(features, targets).
VARIABLE cache_log

\* -------------------------------------------------------------- arithmetic
Min(a, b) == IF a < b THEN a ELSE b

Clamp(k) == IF k > FloatMax THEN FloatMax
            ELSE IF k < 0 - FloatMax THEN 0 - FloatMax ELSE k

\* x / d for d > 0, rounded to the nearest integer (halves upwards).
RoundDiv(x, d) == (2 * x + d) \div (2 * d)

\* The number nearest to n / d, for d > 0.
Rat(n, d) == Clamp(RoundDiv(n * Scale, d))

R0 == 0

R1 == Scale

RInt(i) == Clamp(i * Scale)

RAdd(p, q) == Clamp(p + q)

RSub(p, q) == Clamp(p - q)

RMul(p, q) == Clamp(RoundDiv(p * q, Scale))

\* p / k for an integer k > 0.
RDivInt(p, k) == RoundDiv(p, k)

RLess(p, q) == p < q

\* An array with every entry evaluated: the one-dimensional array v as a
\* tuple, the two-dimensional array A as a tuple of tuples (NumPy arrays hold
\* values, not pending computations).
Vec(v) == SubSeq(v, 1, Len(v))

Mat(A) == Vec([i \in 1..Len(A) |-> Vec(A[i])])

RECURSIVE RSum(_)
RSum(s) == IF s = <<>> THEN R0 ELSE RAdd(s[1], RSum(Tail(s)))

\* --------------------------------------------------- pseudo-random streams
\* np.random.seed(s) / np.random.RandomState(s): the stream's state after
\* seeding.  The generator is a deterministic function of its state; a small
\* linear congruential generator stands for NumPy's Mersenne Twister.
SeedStream(seed) == seed % StreamModulus

StreamStep(s) == (5 * s + 3) % StreamModulus

\* One draw of an integer in 0..k-1: <<value, next state>>.
RandInterval(s, k) == <<StreamStep(s) % k, StreamStep(s)>>

Swap(seq, i, j) == [seq EXCEPT ![i] = seq[j], ![j] = seq[i]]

\* np.random.shuffle: Fisher-Yates from the last position down, one draw of
\* j in 0..i per position i = n-1 .. 1, swapping positions i and j.
RECURSIVE ShuffleFrom(_, _, _)
ShuffleFrom(seq, s, i) ==
    IF i < 1 THEN [perm |-> seq, stream |-> s]
    ELSE LET d == RandInterval(s, i + 1)
         IN  ShuffleFrom(Swap(seq, i + 1, d[1] + 1), d[2], i - 1)

Shuffle(seq, s) == ShuffleFrom(seq, s, Len(seq) - 1)

\* np.arange(n)
Arange(n) == Vec([i \in 1..n |-> i - 1])

\* A generator that shuffles with a random stream of its own and leaves the
\* global one as it found it.
NewGeneratorOwnStream(n, s) == [perm |-> Shuffle(Arange(n), s).perm, stream |-> s]

\* The first two lines of minibatch_generator, run when a loop first asks the
\* new generator for a batch: indices = np.arange(n), shuffled in place.
NewGenerator(n, s) == Shuffle(Arange(n), s)

\* ------------------------------------------------------------ label encoder
\* An index resolution that lands one column to the right.
OneHotColumnShifted(val, num_labels) ==
    IF val + 1 >= 0 /\ val + 1 < num_labels THEN val + 1
    ELSE IF val + 1 < 0 /\ val + 1 >= -num_labels THEN val + 1 + num_labels
    ELSE -1

\* NumPy's resolution of the column index in ary[i, val] for a row of
\* num_labels columns: -1 stands for IndexError; a negative val in
\* -num_labels..-1 counts from the end.
OneHotColumn(val, num_labels) ==
    IF val >= 0 /\ val < num_labels THEN val
    ELSE IF val < 0 /\ val >= -num_labels THEN val + num_labels
    ELSE -1

\* int_to_onehot(y, num_labels): a zero matrix of len(y) rows and num_labels
\* columns with ary[i, y[i]] set to 1 row by row; the first label NumPy cannot
\* index raises IndexError.
int_to_onehot(y, num_labels) ==
    IF \E i \in 1..Len(y) : OneHotColumn(y[i], num_labels) = -1
    THEN [err |-> "IndexError", ary |-> <<>>]
    ELSE [err |-> "none",
          ary |-> Mat([i \in 1..Len(y) |->
                         [c \in 1..num_labels |->
                            IF c - 1 = OneHotColumn(y[i], num_labels)
                            THEN R1 ELSE R0]])]

\* ------------------------------------------------------ mini-batch generator
\* A range that also starts a last, shorter batch.
RangeHasNextKeepTail(n, size, start_idx) == start_idx < n

\* range(0, n - minibatch_size + 1, minibatch_size) still has start_idx.
RangeHasNext(n, size, start_idx) == start_idx < n - size + 1

\* The Python slice seq[start : start + size] (clamped to the array).
Slice(seq, start, size) ==
    SubSeq(seq, Min(start, Len(seq)) + 1, Min(start + size, Len(seq)))

\* Fancy indexing a[batch_idx].
Take(a, batch_idx) == Vec([k \in 1..Len(batch_idx) |-> a[batch_idx[k] + 1]])

\* The first len(batch_idx) entries of a, whatever the indices are.
TakeUnshuffled(a, batch_idx) == Vec([k \in 1..Len(batch_idx) |-> a[k]])

\* A batch whose features follow the shuffled indices but whose labels do not.
YieldBatchLabelsInOrder(X, y, batch_idx) ==
    [idx |-> batch_idx, X |-> Take(X, batch_idx), y |-> TakeUnshuffled(y, batch_idx)]

\* The pair yielded for a batch of indices, with the indices kept beside it.
YieldBatch(X, y, batch_idx) ==
    [idx |-> batch_idx, X |-> Take(X, batch_idx), y |-> Take(y, batch_idx)]

\* ------------------------------------------------------------ array helpers
Transpose(A) ==
    IF A = <<>> THEN <<>>
    ELSE Mat([j \in 1..Len(A[1]) |-> [i \in 1..Len(A) |-> A[i][j]]])

\* The matrix product A.B of an n-by-k and a non-empty k-by-m array.
MatMul(A, B) ==
    Mat([i \in 1..Len(A) |->
           [j \in 1..Len(B[1]) |->
              RSum(Vec([k \in 1..Len(B) |-> RMul(A[i][k], B[k][j])]))]])

\* A + b with the vector b broadcast across the rows of A.
AddRowVec(A, b) ==
    Mat([i \in 1..Len(A) |-> [j \in 1..Len(b) |-> RAdd(A[i][j], b[j])]])

MatSub(A, B) ==
    Mat([i \in 1..Len(A) |-> [j \in 1..Len(A[i]) |-> RSub(A[i][j], B[i][j])]])

MatScale(c, A) ==
    Mat([i \in 1..Len(A) |-> [j \in 1..Len(A[i]) |-> RMul(c, A[i][j])]])

VecSub(u, v) == Vec([j \in 1..Len(u) |-> RSub(u[j], v[j])])

VecScale(c, u) == Vec([j \in 1..Len(u) |-> RMul(c, u[j])])

\* The column sums of the n-by-m array A (m given: A may have no row).
ColSums(A, m) == Vec([j \in 1..m |-> RSum(Vec([i \in 1..Len(A) |-> A[i][j]]))])

\* The plain sum of all entries.
SumEntries(A) ==
    RSum(Vec([i \in 1..Len(A) |-> RSum(Vec([j \in 1..Len(A[i]) |-> A[i][j]]))]))

\* np.linalg.norm(A)**2: the sum of the squares of all entries.
SumSq(A) ==
    RSum(Vec([i \in 1..Len(A) |->
                RSum(Vec([j \in 1..Len(A[i]) |-> RMul(A[i][j], A[i][j])]))]))

\* np.argmax(row): the first position (0-based) holding the largest entry.
ArgMax(row) ==
    (CHOOSE j \in 1..Len(row) :
        /\ \A k \in 1..Len(row) : ~RLess(row[j], row[k])
        /\ \A k \in 1..(j - 1) : RLess(row[k], row[j])) - 1

\* ------------------------------------------------------------------- layers
\* The error NumPy raises for x.dot(w) + b, or "none": the rows of x (when it
\* has any) must be as long as w has rows, and b as long as w's rows.
AffineError(x, w, b) ==
    IF x # <<>> /\ Len(x[1]) # Len(w) THEN "ValueError"
    ELSE IF w # <<>> /\ Len(w[1]) # Len(b) THEN "ValueError"
    ELSE "none"

\* affine_forward(x, w, b): out = x.w + b, cache = (x, w, b).
affine_forward(x, w, b) ==
    IF AffineError(x, w, b) # "none"
    THEN [err |-> AffineError(x, w, b), out |-> <<>>, cache |-> <<>>]
    ELSE [err |-> "none", out |-> AddRowVec(MatMul(x, w), b),
          cache |-> [x |-> x, w |-> w, b |-> b]]

\* An affine_backward that leaves db at zero.
affine_backward_no_db(dout, cache) ==
    [dx |-> MatMul(dout, Transpose(cache.w)),
     dw |-> MatMul(Transpose(cache.x), dout),
     db |-> Vec([j \in 1..Len(cache.b) |-> R0])]

\* affine_backward(dout, cache): dx = dout.w^T, dw = x^T.dout,
\* db = the column sums of dout.
affine_backward(dout, cache) ==
    [dx |-> MatMul(dout, Transpose(cache.w)),
     dw |-> MatMul(Transpose(cache.x), dout),
     db |-> ColSums(dout, Len(cache.b))]

\* relu_forward(x): out = max(0, x) entry by entry, cache = x.
relu_forward(x) ==
    [out |-> Mat([i \in 1..Len(x) |->
                    [j \in 1..Len(x[i]) |->
                       IF RLess(R0, x[i][j]) THEN x[i][j] ELSE R0]]),
     cache |-> x]

\* A relu_backward that lets the gradient through where the input is 0.
relu_backward_at_zero(dout, cache) ==
    Mat([i \in 1..Len(dout) |->
           [j \in 1..Len(dout[i]) |->
              IF RLess(cache[i][j], R0) THEN R0 ELSE dout[i][j]]])

\* relu_backward(dout, cache): dout where the cached input is > 0, else 0.
relu_backward(dout, cache) ==
    Mat([i \in 1..Len(dout) |->
           [j \in 1..Len(dout[i]) |->
              IF RLess(R0, cache[i][j]) THEN dout[i][j] ELSE R0]])

\* The ReLU half of affine_relu_forward, given what affine_forward returned.
ReluAfter(fc) ==
    LET rl == relu_forward(fc.out)
    IN  IF fc.err # "none" THEN fc
        ELSE [err |-> "none",
              cache |-> [fc_cache |-> fc.cache, relu_cache |-> rl.cache],
              out |-> rl.out]

\* affine_relu_forward(x, w, b): affine, then ReLU; the cache pairs both.
affine_relu_forward(x, w, b) == ReluAfter(affine_forward(x, w, b))

\* A fused backward pass that hands dout to affine_backward directly.
affine_relu_backward_skipping_relu(dout, cache) ==
    affine_backward(dout, cache.fc_cache)

\* affine_relu_backward(dout, cache): ReLU backward, then affine backward.
affine_relu_backward(dout, cache) ==
    affine_backward(relu_backward(dout, cache.relu_cache), cache.fc_cache)

\* ------------------------------------------------------------ network model
\* The stream's state after k further draws.
RECURSIVE StreamAfter(_, _)
StreamAfter(s, k) == IF k = 0 THEN s ELSE StreamAfter(StreamStep(s), k - 1)

\* One draw of rng.normal(loc=0.0, scale=...): a deterministic function of the
\* stream's state; three values around 0 stand for the Gaussian's range.
NormalValue(s) == RInt((s % 3) - 1)

\* rng.normal(size=(rows, cols)) drawn row-major from the stream in state s,
\* after `drawn` earlier draws.
NormalArray(s, drawn, rows, cols) ==
    Mat([i \in 1..rows |->
           [j \in 1..cols |->
              NormalValue(StreamAfter(s, drawn + (i - 1) * cols + j))]])

Zeros(n) == Vec([j \in 1..n |-> R0])

\* TwoLayerNN.__init__: both weight arrays from one RandomState(random_seed),
\* weight_in first; both biases zero.
TwoLayerNN_init(num_features, num_hidden, num_classes, random_seed) ==
    LET rng == SeedStream(random_seed)
    IN  [weight_in |-> NormalArray(rng, 0, num_features, num_hidden),
         bias_in |-> Zeros(num_hidden),
         weight_out |-> NormalArray(rng, num_features * num_hidden,
                                    num_hidden, num_classes),
         bias_out |-> Zeros(num_classes)]

\* A constructor that seeds the global stream with random_seed.
TwoLayerNN_new_seeding(num_features, num_hidden, num_classes, random_seed, global) ==
    [params |-> TwoLayerNN_init(num_features, num_hidden, num_classes, random_seed),
     np_random |-> SeedStream(random_seed)]

\* tnn = TwoLayerNN(...) with the global stream in state global: the new
\* model's parameters and the global stream afterwards.  __init__ draws from
\* its own rng = np.random.RandomState(random_seed) only.
TwoLayerNN_new(num_features, num_hidden, num_classes, random_seed, global) ==
    [params |-> TwoLayerNN_init(num_features, num_hidden, num_classes, random_seed),
     np_random |-> global]

\* What the forward pass returns, given the results l1 and l2 of its layers.
ForwardResult(p, l1, l2) ==
    [err |-> l2.err, cache1 |-> l1.cache, cache2 |-> l2.cache,
     out2 |-> l2.out, params |-> p]

\* The second layer of the forward pass, given the result l1 of the first.
ForwardFrom(p, l1) ==
    IF l1.err # "none"
    THEN [err |-> l1.err, cache1 |-> <<>>, cache2 |-> <<>>, out2 |-> <<>>,
          params |-> p]
    ELSE ForwardResult(p, l1, affine_forward(l1.out, p.weight_out, p.bias_out))

\* self.params['bias_out'] overwritten with ones.
OnesWritten(p, fw) ==
    [fw EXCEPT !.params = [p EXCEPT !.bias_out = Vec([j \in 1..Len(p.bias_out) |-> R1])]]

\* A forward pass that overwrites self.params['bias_out'] with ones.
TwoLayerNN_forward_writing(p, X) ==
    OnesWritten(p, ForwardFrom(p, affine_relu_forward(X, p.weight_in, p.bias_in)))

\* The first layer's cache of the latest training call put in the place of the
\* one just created.
CacheKept(fw) ==
    IF fw.cache1 = <<>> \/ cache_log.last = <<>> THEN fw
    ELSE IF cache_log.last.created = <<>> THEN fw
    ELSE [fw EXCEPT !.cache1 = cache_log.last.created[1]]

\* A forward pass that keeps the first layer's cache of the latest training
\* call instead of the one it has just created.
TwoLayerNN_forward_keeping_cache(p, X) ==
    CacheKept(ForwardFrom(p, affine_relu_forward(X, p.weight_in, p.bias_in)))

\* The forward pass both branches of TwoLayerNN.loss start with: the scores
\* out2, both caches, and self.params as the pass leaves it (it only reads
\* the four arrays); the error of the first layer that raises ends the pass.
TwoLayerNN_forward(p, X) ==
    ForwardFrom(p, affine_relu_forward(X, p.weight_in, p.bias_in))

\* The caches a forward pass created, in the order it created them.
CachesOf(fw) ==
    IF fw.cache1 = <<>> THEN <<>>
    ELSE IF fw.cache2 = <<>> THEN <<fw.cache1>>
    ELSE <<fw.cache1, fw.cache2>>

TwoLayerNN_predict(p, X) == TwoLayerNN_forward(p, X).out2

\* What TwoLayerNN.loss(X, y) returns after a forward pass fw and an encoding
\* enc without error, given the results b2 and b1 of its two backward calls.
LossResult(fw, enc, n, b2, b1) ==
    [err |-> "none", nnet |-> fw.params,
     created |-> CachesOf(fw),
     consumed |-> <<fw.cache2, fw.cache1>>,
     loss |-> RDivInt(SumSq(MatSub(enc.ary, fw.out2)), 2 * n),
     grads |-> [weight_in |-> b1.dw, bias_in |-> b1.db,
                weight_out |-> b2.dw, bias_out |-> b2.db]]

\* The inner layer's backward call, given the result b2 of the outer layer's.
InnerBackward(fw, enc, n, b2) ==
    LossResult(fw, enc, n, b2, affine_relu_backward(b2.dx, fw.cache1))

\* The backward pass from the gradient dscores of the loss in the scores.
BackwardFrom(fw, enc, n, dscores) ==
    InnerBackward(fw, enc, n, affine_backward(dscores, fw.cache2))

\* What TwoLayerNN.loss(X, y) leaves with when the forward pass or the
\* encoding of the labels raised.
LossRaised(fw, enc) ==
    [err |-> IF fw.err # "none" THEN fw.err ELSE enc.err,
     loss |-> R0, grads |-> <<>>, nnet |-> fw.params,
     created |-> CachesOf(fw), consumed |-> <<>>]

\* The loss and its gradients with dScores = scores / N.
LossUntargetedFrom(fw, enc, n) ==
    IF fw.err # "none" \/ enc.err # "none" THEN LossRaised(fw, enc)
    ELSE BackwardFrom(fw, enc, n, MatScale(Rat(1, n), fw.out2))

\* A loss whose gradients start from the scores, not from scores - onehot.
TwoLayerNN_loss_untargeted(p, X, y) ==
    LossUntargetedFrom(TwoLayerNN_forward(p, X),
                       int_to_onehot(y, Len(p.bias_out)), Len(y))

\* The loss and its gradients, given the forward pass fw of the n examples and
\* the encoding enc of their labels.
LossFrom(fw, enc, n) ==
    IF fw.err # "none" \/ enc.err # "none" THEN LossRaised(fw, enc)
    ELSE BackwardFrom(fw, enc, n, MatScale(Rat(1, n), MatSub(fw.out2, enc.ary)))

\* TwoLayerNN.loss(X, y): the forward pass, then
\* loss = (1/(2N)) * sum((onehot - scores)^2), dScores = (scores - onehot)/N
\* pushed through affine_backward (outer layer) and affine_relu_backward
\* (inner layer).  An error of the forward pass, or after it an unencodable
\* label, raises before anything is returned.  nnet is self.params as the call
\* leaves it; created lists the caches the forward pass created and consumed
\* the caches handed to the two backward calls, in call order.
TwoLayerNN_loss(p, X, y) ==
    LossFrom(TwoLayerNN_forward(p, X), int_to_onehot(y, Len(p.bias_out)), Len(y))

\* An update that moves the two weight arrays and leaves the biases.
SgdUpdateWeightsOnly(p, grads, learning_rate) ==
    [p EXCEPT
       !.weight_in = MatSub(p.weight_in, MatScale(learning_rate, grads.weight_in)),
       !.weight_out = MatSub(p.weight_out, MatScale(learning_rate, grads.weight_out))]

\* The optimizer's update p <- p - learning_rate * grad[p] of all four arrays.
SgdUpdate(p, grads, learning_rate) ==
    [weight_in |-> MatSub(p.weight_in, MatScale(learning_rate, grads.weight_in)),
     bias_in |-> VecSub(p.bias_in, VecScale(learning_rate, grads.bias_in)),
     weight_out |-> MatSub(p.weight_out, MatScale(learning_rate, grads.weight_out)),
     bias_out |-> VecSub(p.bias_out, VecScale(learning_rate, grads.bias_out))]

\* ---------------------------------------------------------------- evaluation
\* The number of positions where predicted_labels == targets.
CountEqual(a, b) == Cardinality({k \in 1..Len(a) : a[k] = b[k]})

PredictedLabels(probas) == Vec([i \in 1..Len(probas) |-> ArgMax(probas[i])])

\* (0.5 / n) * np.linalg.norm(onehot_targets - probas)**2
HalfMeanSq(onehot_targets, probas, n) ==
    RDivInt(SumSq(MatSub(onehot_targets, probas)), 2 * n)

\* mse_loss(targets, probas, num_labels) for probas of len(targets) rows and
\* num_labels columns: the labels are encoded first, then the division by the
\* number of targets is made.
mse_loss(targets, probas, num_labels) ==
    LET enc == int_to_onehot(targets, num_labels)
    IN  IF enc.err # "none" THEN [err |-> enc.err, loss |-> R0]
        ELSE IF Len(targets) = 0 THEN [err |-> "ZeroDivisionError", loss |-> R0]
        ELSE [err |-> "none", loss |-> HalfMeanSq(enc.ary, probas, Len(targets))]

\* The unbatched check, given the forward pass fw of the whole data set and
\* the encoding enc of its labels y.
UnbatchedFrom(fw, enc, y, num_labels) ==
    IF fw.err # "none"
    THEN [err |-> fw.err, mse |-> R0, acc |-> R0, nnet |-> fw.params]
    ELSE IF enc.err # "none"
    THEN [err |-> enc.err, mse |-> R0, acc |-> R0, nnet |-> fw.params]
    ELSE IF Len(y) = 0
    THEN [err |-> "ZeroDivisionError", mse |-> R0, acc |-> R0, nnet |-> fw.params]
    ELSE [err |-> "none", nnet |-> fw.params,
          mse |-> mse_loss(y, fw.out2, num_labels).loss,
          acc |-> Rat(CountEqual(PredictedLabels(fw.out2), y), Len(y))]

\* mse_loss(targets, probas, num_labels) and accuracy(targets, predicted_labels)
\* applied to the scores of the whole data set at once (the unbatched check).
Unbatched(p, X, y, num_labels) ==
    UnbatchedFrom(TwoLayerNN_forward(p, X), int_to_onehot(y, num_labels), y, num_labels)

\* The loop body, given the forward pass fw of the batch and the encoding enc
\* of its targets.
EvalBatchFrom(fw, enc, targets, st) ==
    IF fw.err # "none"
    THEN [st EXCEPT !.err = fw.err, !.nnet = fw.params,
                    !.caches = @ + Len(CachesOf(fw))]
    ELSE IF enc.err # "none"
    THEN [st EXCEPT !.err = enc.err, !.nnet = fw.params,
                    !.caches = @ + Len(CachesOf(fw))]
    ELSE [err |-> "none", nnet |-> fw.params,
          caches |-> st.caches + Len(CachesOf(fw)),
          mse |-> RAdd(st.mse, HalfMeanSq(enc.ary, fw.out2, Len(targets))),
          correct_pred |-> st.correct_pred
                           + CountEqual(PredictedLabels(fw.out2), targets),
          num_examples |-> st.num_examples + Len(targets),
          i |-> st.i + 1]

\* The body of compute_mse_and_acc's loop for one batch (features, targets):
\* st = [mse, correct_pred, num_examples, i] accumulated so far (i = -1: the
\* loop variable is still unbound), nnet, the model's parameters as the
\* calls of nnet.loss(features) made so far left them, and caches, the number
\* of layer caches those calls created.
EvalBatch(features, targets, num_labels, st) ==
    EvalBatchFrom(TwoLayerNN_forward(st.nnet, features),
                  int_to_onehot(targets, num_labels), targets, st)

\* The loop of compute_mse_and_acc over the batches of one shuffled pass, left
\* at the first batch that raises.
RECURSIVE EvalLoop(_, _, _, _, _, _, _)
\* The loop after the body has turned st into next for the batch at start_idx.
EvalLoopAfter(X, y, num_labels, size, indices, start_idx, next) ==
    IF next.err # "none" THEN next
    ELSE EvalLoop(X, y, num_labels, size, indices, start_idx + size, next)

\* The loop body on the batch b.
EvalBatchOf(b, num_labels, st) == EvalBatch(b.X, b.y, num_labels, st)

EvalLoop(X, y, num_labels, size, indices, start_idx, st) ==
    IF ~RangeHasNext(Len(indices), size, start_idx) THEN st
    ELSE EvalLoopAfter(X, y, num_labels, size, indices, start_idx,
                       EvalBatchOf(YieldBatch(X, y, Slice(indices, start_idx, size)),
                                   num_labels, st))

\* The counters before the first batch.
EvalStart(p) ==
    [err |-> "none", nnet |-> p, caches |-> 0, mse |-> R0,
     correct_pred |-> 0, num_examples |-> 0, i |-> -1]

\* What compute_mse_and_acc leaves with when a batch raised.
EvalRaised(sh, st) ==
    [err |-> st.err, mse |-> R0, acc |-> R0, num_examples |-> st.num_examples,
     batches |-> st.i + 1, perm |-> sh.perm, stream |-> sh.stream,
     nnet |-> st.nnet, caches |-> st.caches]

\* mse = mse/(i+1); acc = correct_pred/num_examples; return mse, acc.
EvalPair(sh, st) ==
    [err |-> "none", nnet |-> st.nnet, caches |-> st.caches,
     mse |-> RDivInt(st.mse, st.i + 1),
     acc |-> Rat(st.correct_pred, st.num_examples),
     num_examples |-> st.num_examples,
     batches |-> st.i + 1, perm |-> sh.perm, stream |-> sh.stream]

\* The pair (0, 0) of an evaluation without batches.
EvalZeroPair(sh, st) ==
    [err |-> "none", mse |-> R0, acc |-> R0, num_examples |-> 0,
     batches |-> 0, perm |-> sh.perm, stream |-> sh.stream, nnet |-> st.nnet,
     caches |-> st.caches]

EvalGuardedReturn(sh, st) ==
    IF st.err # "none" THEN EvalRaised(sh, st)
    ELSE IF st.i = -1 THEN EvalZeroPair(sh, st)
    ELSE EvalPair(sh, st)

EvalGuardedFrom(p, X, y, num_labels, size, sh) ==
    EvalGuardedReturn(sh, EvalLoop(X, y, num_labels, size, sh.perm, 0, EvalStart(p)))

\* The lines after the loop, given the shuffle sh and the counters st the
\* loop ended with: with i still unbound, mse/(i+1) raises.
EvalReturn(sh, st) ==
    IF st.err # "none" THEN EvalRaised(sh, st)
    ELSE IF st.i = -1
    THEN [err |-> "UnboundLocalError", mse |-> R0, acc |-> R0, num_examples |-> 0,
          batches |-> 0, perm |-> sh.perm, stream |-> sh.stream, nnet |-> st.nnet,
          caches |-> st.caches]
    ELSE EvalPair(sh, st)

\* The loop and the lines after it, given the generator's shuffle sh.
EvalFrom(p, X, y, num_labels, size, sh) ==
    EvalReturn(sh, EvalLoop(X, y, num_labels, size, sh.perm, 0, EvalStart(p)))

\* An evaluator that returns the pair (0, 0) when the loop yielded no batch.
compute_mse_and_acc_guarded(p, X, y, num_labels, size, s) ==
    EvalGuardedFrom(p, X, y, num_labels, size, NewGenerator(Len(X), s))

\* compute_mse_and_acc(nnet, X, y, num_labels, minibatch_size) run with the
\* global stream in state s: the returned pair (or the error raised), the
\* counters when the loop ended, the stream's state afterwards and the
\* parameters of nnet afterwards.
compute_mse_and_acc(p, X, y, num_labels, size, s) ==
    EvalFrom(p, X, y, num_labels, size, NewGenerator(Len(X), s))

\* -------------------------------------------------------------------- state
VARIABLES
    enc_y,            \* the label vector handed to int_to_onehot
    enc_num_labels,   \* its num_labels argument
    enc_ret,          \* what the call returned or raised ("pending" before it)
    X_train, y_train, \* the (training) data set iterated in mini-batches
    X_valid, y_valid, \* the validation data set
    np_random,        \* the state of NumPy's global random stream
    minibatch_size,   \* the mini-batch size of the iterated generator
    pc,               \* the position of the running loop
    e,                \* epochs begun so far
    indices,          \* the running generator's shuffled indices
    start_idx,        \* the running generator's next start_idx
    yielded,          \* the batches the running generator has yielded so far
    perms,            \* per epoch begun: the stream state before its shuffle,
                      \* and the permutation the shuffle produced
    params,           \* the model's Parameter Set
    eval_size,        \* the minibatch_size argument of compute_mse_and_acc
    ev_batched,       \* the result of compute_mse_and_acc ("pending" before)
    ev_full,          \* the result of the unbatched evaluation ("pending" before)
    num_epochs,       \* train's num_epochs argument
    learning_rate,    \* train's learning_rate argument
    epoch_loss,       \* train's three metrics lists
    epoch_train_acc,
    epoch_valid_acc,
    raised,           \* the error that propagated out of train ("none" if none)
    grads,            \* the Gradient Set of the current mini-batch (<<>> if none)
    n_updates,        \* optimizer updates applied in this run
    random_seed,      \* the seed the model was constructed with
    shuffle_seed,     \* the seed given to np.random.seed before train
    init_params,      \* the Parameter Set as the model's constructor left it
    run,              \* 1 for the first training run, 2 for the repeated one
    prev,             \* what the first run began and ended with (<<>> in run 1)
    call_args,        \* the arguments of a function called on its own
    call_pc,          \* the position of that call
    call_ret,         \* what the call has computed or returned so far
    call_trace        \* the functions the call has entered, in order

encVars == <<enc_y, enc_num_labels, enc_ret>>

dataVars == <<X_train, y_train, X_valid, y_valid>>

loopVars == <<pc, e, indices, start_idx, yielded, perms, minibatch_size>>

evalVars == <<eval_size, ev_batched, ev_full>>

trainVars == <<num_epochs, learning_rate, epoch_loss, epoch_train_acc,
               epoch_valid_acc, raised, grads, n_updates, random_seed,
               shuffle_seed, init_params, run, prev, cache_log>>

callVars == <<call_args, call_pc, call_ret, call_trace>>

vars == <<encVars, dataVars, loopVars, evalVars, trainVars, callVars, np_random,
          params>>

CallOff ==
    call_args = <<>> /\ call_pc = "off" /\ call_ret = <<>> /\ call_trace = <<>>

Pending == [err |-> "pending"]

EncOff == enc_y = <<>> /\ enc_num_labels = 0 /\ enc_ret = Pending

LoopOff ==
    /\ pc = "off" /\ e = 0 /\ indices = <<>> /\ start_idx = 0
    /\ yielded = <<>> /\ perms = <<>> /\ minibatch_size = 0

EvalOff == eval_size = 0 /\ ev_batched = Pending /\ ev_full = Pending

NoParams == <<>>

\* No cache created yet.
NoCaches == [created |-> 0, consumed |-> 0, last |-> <<>>]

TrainOff ==
    /\ num_epochs = 0 /\ learning_rate = R0
    /\ epoch_loss = <<>> /\ epoch_train_acc = <<>> /\ epoch_valid_acc = <<>>
    /\ raised = "none" /\ grads = <<>> /\ n_updates = 0
    /\ random_seed = 0 /\ shuffle_seed = 0 /\ init_params = NoParams
    /\ run = 1 /\ prev = <<>> /\ cache_log = NoCaches

\* --------------------------------------------------- the label encoder alone
\* All label vectors of length 0..MaxEncN over labels that reach one past
\* either end of the range NumPy can index.
EncLabels == (0 - MaxEncC - 1)..MaxEncC

EncVectors == UNION {[1..n -> EncLabels] : n \in 0..MaxEncN}

InitEncoder ==
    /\ enc_y \in EncVectors
    /\ enc_num_labels \in 1..MaxEncC
    /\ enc_ret = Pending
    /\ X_train = <<>> /\ y_train = <<>> /\ X_valid = <<>> /\ y_valid = <<>>
    /\ LoopOff /\ EvalOff /\ TrainOff /\ CallOff
    /\ np_random = 0 /\ params = NoParams

\* One call int_to_onehot(enc_y, enc_num_labels).
EncCall ==
    /\ enc_ret = Pending
    /\ enc_ret' = int_to_onehot(enc_y, enc_num_labels)
    /\ UNCHANGED <<callVars, enc_y, enc_num_labels, dataVars, loopVars, evalVars,
                   trainVars, np_random, params>>

NextEncoder == EncCall

SpecEncoder == InitEncoder /\ [][NextEncoder]_vars

\* ---------------------------------------------- the mini-batch generator alone
\* A data set of n examples whose rows and labels tell the examples apart.
GenX(n) == Vec([i \in 1..n |-> <<RInt(i - 1)>>])

GenY(n) == Vec([i \in 1..n |-> (i - 1) % 3])

InitGenerator ==
    /\ \E n \in 0..MaxGenN : X_train = GenX(n) /\ y_train = GenY(n)
    /\ minibatch_size \in 1..MaxGenB
    /\ \E seed \in 0..MaxSeed : np_random = SeedStream(seed)
    /\ pc = "new" /\ e = 0 /\ indices = <<>> /\ start_idx = 0
    /\ yielded = <<>> /\ perms = <<>>
    /\ X_valid = <<>> /\ y_valid = <<>>
    /\ EncOff /\ EvalOff /\ TrainOff /\ CallOff /\ params = NoParams

\* A loop (one epoch) creates a generator over the data set and starts it.
GenCreate ==
    /\ pc \in {"new", "exhausted"}
    /\ e < MaxEpochs
    /\ \E g \in {NewGenerator(Len(X_train), np_random)} :
           /\ indices' = g.perm
           /\ np_random' = g.stream
           /\ perms' = Append(perms, [before |-> np_random, perm |-> g.perm])
    /\ start_idx' = 0
    /\ yielded' = <<>>
    /\ e' = e + 1
    /\ pc' = "iter"
    /\ UNCHANGED <<callVars, encVars, dataVars, evalVars, trainVars, minibatch_size, params>>

\* The generator yields its next batch.
GenNext ==
    /\ pc = "iter"
    /\ RangeHasNext(Len(indices), minibatch_size, start_idx)
    /\ yielded' = Append(yielded,
                         YieldBatch(X_train, y_train,
                                    Slice(indices, start_idx, minibatch_size)))
    /\ start_idx' = start_idx + minibatch_size
    /\ UNCHANGED <<callVars, encVars, dataVars, evalVars, trainVars, pc, e, indices, perms,
                   minibatch_size, np_random, params>>

\* The range is used up: the generator stops and the loop ends.
GenExhaust ==
    /\ pc = "iter"
    /\ ~RangeHasNext(Len(indices), minibatch_size, start_idx)
    /\ pc' = "exhausted"
    /\ UNCHANGED <<callVars, encVars, dataVars, evalVars, trainVars, e, indices, start_idx,
                   yielded, perms, minibatch_size, np_random, params>>

NextGenerator == GenCreate \/ GenNext \/ GenExhaust

SpecGenerator == InitGenerator /\ [][NextGenerator]_vars

\* ------------------------------------------- claims on the generator alone
IsPermutation(seq, n) ==
    /\ Len(seq) = n
    /\ \A v \in 0..(n - 1) : \E k \in 1..n : seq[k] = v

\* Every (batch, position) pair of the batches yielded so far in this epoch.
YieldedSlots == {<<k, j>> : k \in 1..Len(yielded), j \in 1..minibatch_size}

\* C1: every batch yielded holds exactly minibatch_size examples (features,
\* labels and indices alike), and when the generator of a data set of N
\* examples is exhausted it has yielded exactly floor(N / minibatch_size)
\* batches, which use N - (N mod minibatch_size) examples: the remainder is
\* dropped, not padded.
C1_BatchCount ==
    /\ \A k \in 1..Len(yielded) :
          /\ Len(yielded[k].idx) = minibatch_size
          /\ Len(yielded[k].X) = minibatch_size
          /\ Len(yielded[k].y) = minibatch_size
    /\ pc = "exhausted" =>
          /\ Len(yielded) = Len(X_train) \div minibatch_size
          /\ Len(yielded) * minibatch_size
                = Len(X_train) - (Len(X_train) % minibatch_size)

\* N = 17 and minibatch_size = 5: exhausted after exactly 3 batches.
C1_Witness ==
    /\ pc = "exhausted" /\ Len(X_train) = 17 /\ minibatch_size = 5
    /\ Len(yielded) = 3

\* C2: within one epoch no example index is yielded twice (neither in two
\* batches nor twice in one), every yielded feature row and label are those of
\* the yielded index, and every epoch begun drew its own permutation of
\* 0..N-1 from the global stream, continuing the stream where the previous
\* epoch's shuffle left it.
C2_WithoutReplacement ==
    /\ \A a, b \in YieldedSlots :
          a # b => yielded[a[1]].idx[a[2]] # yielded[b[1]].idx[b[2]]
    /\ \A a \in YieldedSlots :
          /\ yielded[a[1]].X[a[2]] = X_train[yielded[a[1]].idx[a[2]] + 1]
          /\ yielded[a[1]].y[a[2]] = y_train[yielded[a[1]].idx[a[2]] + 1]
    /\ Len(perms) = e
    /\ \A k \in 1..Len(perms) :
          /\ IsPermutation(perms[k].perm, Len(X_train))
          /\ perms[k].perm = Shuffle(Arange(Len(X_train)), perms[k].before).perm
          /\ k > 1 => perms[k].before
                        = Shuffle(Arange(Len(X_train)), perms[k - 1].before).stream
    /\ pc \in {"iter", "exhausted"} => indices = perms[e].perm

\* The second epoch is over, it yielded several batches, and its permutation
\* differs from the first epoch's.
C2_Witness ==
    /\ pc = "exhausted" /\ e = 2 /\ Len(yielded) >= 2 /\ minibatch_size >= 2
    /\ perms[1].perm # perms[2].perm

\* ---------------------------------------------- claims on the encoder alone
EncReturned == enc_ret # Pending

\* C3: for a label vector of length N with every label in 0..C-1,
\* int_to_onehot returns an N-by-C matrix whose row i holds 1 in column
\* y[i] and 0 everywhere else, so that every row sums to exactly 1.
C3_OneHot ==
    (EncReturned /\ \A i \in 1..Len(enc_y) : enc_y[i] \in 0..(enc_num_labels - 1))
    => /\ enc_ret.err = "none"
       /\ Len(enc_ret.ary) = Len(enc_y)
       /\ \A i \in 1..Len(enc_y) :
             /\ Len(enc_ret.ary[i]) = enc_num_labels
             /\ enc_ret.ary[i][enc_y[i] + 1] = R1
             /\ \A c \in 1..enc_num_labels :
                   c # enc_y[i] + 1 => enc_ret.ary[i][c] = R0
             /\ RSum(enc_ret.ary[i]) = R1

\* Three in-range labels, not all equal, were encoded.
C3_Witness ==
    /\ EncReturned /\ Len(enc_y) = 3 /\ enc_num_labels = 3
    /\ enc_y = <<2, 0, 1>> /\ enc_ret.err = "none"

\* C4: whenever some label is >= C or < 0 the encoder fails with an error and
\* returns no matrix.
C4_OutOfRangeFails ==
    (EncReturned /\ \E i \in 1..Len(enc_y) : enc_y[i] \notin 0..(enc_num_labels - 1))
    => enc_ret.err # "none"

\* --------------------------------------------------------- the evaluator alone
\* Feature rows with entries in -1..1 (the notebook normalises pixels to
\* [-1, 1]).
DataX(n) ==
    Mat([i \in 1..n |-> [d \in 1..NumFeatures |-> RInt(((i + d * d) % 3) - 1)]])

\* Every label vector of length n over the classes 0..NumLabels-1.
LabelVectors(n) == [1..n -> 0..(NumLabels - 1)]

InitEvaluator ==
    /\ \E n \in 0..MaxN : X_valid = DataX(n) /\ y_valid \in LabelVectors(n)
    /\ \E seed \in 0..MaxSeed :
          params = TwoLayerNN_init(NumFeatures, NumHidden, NumLabels, seed)
    /\ \E seed \in 0..MaxSeed : np_random = SeedStream(seed)
    /\ eval_size \in 1..MaxB
    /\ ev_batched = Pending /\ ev_full = Pending
    /\ X_train = <<>> /\ y_train = <<>>
    /\ EncOff /\ LoopOff /\ TrainOff /\ CallOff

\* mse, acc = compute_mse_and_acc(tnn, X_valid, y_valid): one call, which
\* draws its shuffle from the global stream.
EvalBatched ==
    /\ ev_batched = Pending
    /\ \E r \in {compute_mse_and_acc(params, X_valid, y_valid, NumLabels,
                                     eval_size, np_random)} :
           /\ ev_batched' = r
           /\ np_random' = r.stream
           /\ params' = r.nnet
    /\ UNCHANGED <<callVars, encVars, dataVars, loopVars, trainVars, eval_size, ev_full>>

\* probas = tnn.loss(X_valid); mse_loss(y_valid, probas);
\* accuracy(y_valid, argmax(probas)): the whole data set at once.
EvalUnbatched ==
    /\ ev_full = Pending
    /\ \E r \in {Unbatched(params, X_valid, y_valid, NumLabels)} :
           ev_full' = r /\ params' = r.nnet
    /\ UNCHANGED <<callVars, encVars, dataVars, loopVars, trainVars, eval_size, ev_batched,
                   np_random>>

NextEvaluator == EvalBatched \/ EvalUnbatched

SpecEvaluator == InitEvaluator /\ [][NextEvaluator]_vars

\* ------------------------------------------------- claims on the evaluator
\* C5: compute_mse_and_acc, when it returns, has counted every one of the N
\* examples of the data set, and its accuracy is the number of correct
\* predictions over the whole data set divided by N.
C5_CountsEveryExample ==
    (ev_batched # Pending /\ ev_batched.err = "none")
    => /\ ev_batched.num_examples = Len(X_valid)
       /\ ev_batched.acc
            = Rat(CountEqual(PredictedLabels(TwoLayerNN_predict(params, X_valid)),
                             y_valid),
                  Len(X_valid))

\* C6: whenever both evaluations return, the batched evaluator's MSE and
\* accuracy equal those of the unbatched computation over the whole data set.
C6_BatchedEqualsUnbatched ==
    (/\ ev_batched # Pending /\ ev_batched.err = "none"
     /\ ev_full # Pending /\ ev_full.err = "none")
    => /\ ev_batched.mse = ev_full.mse
       /\ ev_batched.acc = ev_full.acc

\* ------------------------------------------------------------------ training
\* The label of example i of the training and validation data.
DataY(n) == Vec([i \in 1..n |-> (i * i) % NumLabels])

\* The learning rates handed to train (0.0001 in the notebook's call).
LearningRates == {Rat(1, 2)}

\* A model that is constructed only once and handed to train again.
FreshModelKept(old, seed) ==
    IF old = NoParams
    THEN TwoLayerNN_init(NumFeatures, NumHidden, NumLabels, seed)
    ELSE old

\* tnn = TwoLayerNN(num_features, num_hidden, num_classes, random_seed): the
\* name tnn is bound to a new model, whatever it was bound to before (old).
FreshModel(old, seed) ==
    TwoLayerNN_init(NumFeatures, NumHidden, NumLabels, seed)

\* The locals of train at entry: three empty metrics lists, no epoch begun.
TrainEntry ==
    /\ epoch_loss' = <<>> /\ epoch_train_acc' = <<>> /\ epoch_valid_acc' = <<>>
    /\ grads' = <<>> /\ n_updates' = 0 /\ cache_log' = NoCaches
    /\ pc' = "epoch" /\ e' = 0 /\ indices' = <<>> /\ start_idx' = 0
    /\ yielded' = <<>> /\ perms' = <<>>

\* tnn = TwoLayerNN(...); np.random.seed(...); then train(tnn, X_train,
\* y_train, X_valid, y_valid, num_epochs, learning_rate) is entered.
InitTrainCall ==
    /\ minibatch_size \in 1..MaxB
    /\ num_epochs \in 0..MaxEpochs
    /\ \E n \in 0..MaxValidN : X_valid = DataX(n) /\ y_valid = DataY(n)
    /\ random_seed \in 0..MaxModelSeed
    /\ params = FreshModel(NoParams, random_seed)
    /\ init_params = params
    /\ shuffle_seed \in 0..MaxShuffleSeed
    /\ np_random = SeedStream(shuffle_seed)
    /\ eval_size \in 1..MaxEvalB
    /\ learning_rate \in LearningRates
    /\ epoch_loss = <<>> /\ epoch_train_acc = <<>> /\ epoch_valid_acc = <<>>
    /\ raised = "none" /\ grads = <<>> /\ n_updates = 0
    /\ run = 1 /\ prev = <<>> /\ cache_log = NoCaches
    /\ pc = "epoch" /\ e = 0 /\ indices = <<>> /\ start_idx = 0
    /\ yielded = <<>> /\ perms = <<>>
    /\ EncOff /\ CallOff /\ ev_batched = Pending /\ ev_full = Pending

\* train on well-formed training data.
InitTrain ==
    /\ \E n \in 0..MaxN : X_train = DataX(n) /\ y_train = DataY(n)
    /\ InitTrainCall

\* Feature rows with one feature more than the model was built for.
WideX(n) ==
    Mat([i \in 1..n |-> [d \in 1..(NumFeatures + 1) |-> RInt(((i + d * d) % 3) - 1)]])

\* The labels DataY(n) with the label of example k (if any) replaced by
\* num_classes, the smallest label the encoder cannot index.
FaultyY(n, k) == Vec([i \in 1..n |-> IF i = k THEN NumLabels ELSE DataY(n)[i]])

\* train on training data that may be malformed: too many features per row,
\* or one label out of range.
InitTrainFaulty ==
    /\ \E n \in 0..MaxN :
          \/ \E k \in 0..n : X_train = DataX(n) /\ y_train = FaultyY(n, k)
          \/ X_train = WideX(n) /\ y_train = DataY(n)
    /\ InitTrainCall

\* A train that goes on after a call whatever it raised.
AfterCallSwallowing(err, next) == next

\* Where train goes on after a call that returned or raised err: train has no
\* try/except, so an exception leaves train; otherwise the body goes on at
\* `next`.
AfterCall(err, next) == IF err # "none" THEN "raised" ELSE next

\* A loop that stops one epoch early.
EpochsRemainOneLess(done, total) == done + 1 < total

\* for e in range(num_epochs) with `done` epochs begun so far.
EpochsRemain(done, total) == done < total

\* The mini-batch the loop body is working on.
Mini == yielded[Len(yielded)]

\* An epoch begins: the generator over the training data is created and
\* shuffles its indices.
TrainEpochBegin ==
    /\ pc = "epoch"
    /\ EpochsRemain(e, num_epochs)
    /\ \E g \in {NewGenerator(Len(X_train), np_random)} :
           /\ indices' = g.perm
           /\ np_random' = g.stream
           /\ perms' = Append(perms, [before |-> np_random, perm |-> g.perm])
    /\ start_idx' = 0
    /\ yielded' = <<>>
    /\ e' = e + 1
    /\ pc' = "batches"
    /\ UNCHANGED <<callVars, encVars, dataVars, evalVars, trainVars, minibatch_size, params>>

\* The generator yields the next mini-batch and the body encodes its labels
\* (mini_onehots); a label the encoder cannot index raises out of train.
TrainNextBatch ==
    /\ pc = "batches"
    /\ RangeHasNext(Len(indices), minibatch_size, start_idx)
    /\ \E b \in {YieldBatch(X_train, y_train,
                            Slice(indices, start_idx, minibatch_size))} :
         \E enc \in {int_to_onehot(b.y, NumLabels)} :
           /\ yielded' = Append(yielded, b)
           /\ pc' = AfterCall(enc.err, "lossgrad")
           /\ raised' = (IF enc.err # "none" THEN enc.err ELSE raised)
    /\ start_idx' = start_idx + minibatch_size
    /\ UNCHANGED <<callVars, encVars, dataVars, evalVars, e, indices, perms, minibatch_size,
                   np_random, params, num_epochs, learning_rate, epoch_loss,
                   epoch_train_acc, epoch_valid_acc, grads, n_updates,
                   random_seed, shuffle_seed, init_params, run, prev, cache_log>>

\* loss, grads = model.loss(X_train_mini, y_train_mini).
TrainLossGrads ==
    /\ pc = "lossgrad"
    /\ \E r \in {TwoLayerNN_loss(params, Mini.X, Mini.y)} :
           /\ params' = r.nnet
           /\ cache_log' = [created |-> cache_log.created + Len(r.created),
                            consumed |-> cache_log.consumed + Len(r.consumed),
                            last |-> [X |-> Mini.X, params |-> params,
                                      created |-> r.created,
                                      consumed |-> r.consumed]]
           /\ pc' = AfterCall(r.err, "update")
           /\ IF r.err # "none"
              THEN raised' = r.err /\ grads' = grads
              ELSE raised' = raised /\ grads' = r.grads
    /\ UNCHANGED <<callVars, encVars, dataVars, evalVars, e, indices, start_idx, yielded,
                   perms, minibatch_size, np_random, num_epochs, learning_rate,
                   epoch_loss, epoch_train_acc, epoch_valid_acc, n_updates,
                   random_seed, shuffle_seed, init_params, run, prev>>

\* for each of the four parameters: model.params[p] -= learning_rate * grads[p].
TrainUpdate ==
    /\ pc = "update"
    /\ params' = SgdUpdate(params, grads, learning_rate)
    /\ n_updates' = n_updates + 1
    /\ pc' = "batches"
    /\ UNCHANGED <<callVars, encVars, dataVars, evalVars, e, indices, start_idx, yielded,
                   perms, minibatch_size, np_random, num_epochs, learning_rate,
                   epoch_loss, epoch_train_acc, epoch_valid_acc, raised, grads,
                   random_seed, shuffle_seed, init_params, run, prev, cache_log>>

\* #### Epoch Logging ####: the generator is exhausted; both evaluations run
\* (each shuffles with the global stream) and the three metrics are appended.
\* An error of either evaluation propagates out of train before any append.
PercentOf(acc) == RMul(acc, RInt(100))

TrainEpochLog ==
    /\ pc = "batches"
    /\ ~RangeHasNext(Len(indices), minibatch_size, start_idx)
    /\ \E tr \in {compute_mse_and_acc(params, X_train, y_train, NumLabels,
                                      eval_size, np_random)} :
         \E va \in {compute_mse_and_acc(tr.nnet, X_valid, y_valid, NumLabels,
                                        eval_size, tr.stream)} :
           IF tr.err # "none"
           THEN /\ pc' = "raised" /\ raised' = tr.err
                /\ np_random' = tr.stream /\ params' = tr.nnet
                /\ cache_log' = [cache_log EXCEPT !.created = @ + tr.caches]
                /\ UNCHANGED <<epoch_loss, epoch_train_acc, epoch_valid_acc>>
           ELSE IF va.err # "none"
           THEN /\ pc' = "raised" /\ raised' = va.err
                /\ np_random' = va.stream /\ params' = va.nnet
                /\ cache_log' = [cache_log EXCEPT
                                   !.created = @ + tr.caches + va.caches]
                /\ UNCHANGED <<epoch_loss, epoch_train_acc, epoch_valid_acc>>
           ELSE /\ pc' = "epoch" /\ raised' = raised
                /\ np_random' = va.stream /\ params' = va.nnet
                /\ cache_log' = [cache_log EXCEPT
                                   !.created = @ + tr.caches + va.caches]
                /\ epoch_train_acc' = Append(epoch_train_acc, PercentOf(tr.acc))
                /\ epoch_valid_acc' = Append(epoch_valid_acc, PercentOf(va.acc))
                /\ epoch_loss' = Append(epoch_loss, tr.mse)
    /\ UNCHANGED <<callVars, encVars, dataVars, evalVars, e, indices, start_idx, yielded,
                   perms, minibatch_size, num_epochs, learning_rate, grads,
                   n_updates, random_seed, shuffle_seed, init_params, run, prev>>

\* range(num_epochs) is used up: return epoch_loss, epoch_train_acc,
\* epoch_valid_acc.
TrainReturn ==
    /\ pc = "epoch"
    /\ ~EpochsRemain(e, num_epochs)
    /\ pc' = "done"
    /\ UNCHANGED <<callVars, encVars, dataVars, evalVars, trainVars, e, indices, start_idx,
                   yielded, perms, minibatch_size, np_random, params>>

\* After the first run returned, an independent second run on the same data
\* with the same epoch count, batch sizes and learning rate: the global
\* stream is seeded again and the model is constructed again, each with any
\* seed, and train is entered.  prev keeps what the first run began and ended
\* with.
Rerun ==
    /\ pc = "done" /\ run = 1
    /\ prev' = [params |-> params, init_params |-> init_params, perms |-> perms,
                random_seed |-> random_seed, shuffle_seed |-> shuffle_seed,
                epoch_loss |-> epoch_loss, n_updates |-> n_updates]
    /\ run' = 2
    /\ random_seed' \in 0..MaxModelSeed
    /\ params' = FreshModel(params, random_seed')
    /\ init_params' = params'
    /\ shuffle_seed' \in 0..MaxShuffleSeed
    /\ np_random' = TwoLayerNN_new(NumFeatures, NumHidden, NumLabels, random_seed',
                                   SeedStream(shuffle_seed')).np_random
    /\ TrainEntry
    /\ UNCHANGED <<callVars, encVars, dataVars, evalVars, minibatch_size, num_epochs,
                   learning_rate, raised>>

NextTrain ==
    \/ TrainEpochBegin
    \/ TrainNextBatch
    \/ TrainLossGrads
    \/ TrainUpdate
    \/ TrainEpochLog
    \/ TrainReturn
    \/ Rerun

SpecTrain == InitTrain /\ [][NextTrain]_vars

SpecTrainFaulty == InitTrainFaulty /\ [][NextTrain]_vars

\* The positions from which the program goes on: inside train's loops, or
\* after the first run returned (the second run follows).  At "raised" and
\* after the second run the program has ended.
TrainCanStep ==
    \/ pc \in {"epoch", "batches", "lossgrad", "update"}
    \/ pc = "done" /\ run = 1

\* A step of the program: every action of NextTrain moves pc, and some action
\* of NextTrain can be taken exactly where TrainCanStep holds.
TrainStep ==
    /\ TrainCanStep
    /\ pc' \in {"epoch", "batches", "lossgrad", "update", "done", "raised"} \ {pc}

\* The Python interpreter runs the single thread on: a step that can be taken
\* is taken.
FairSpecTrain == SpecTrain /\ WF_pc(TrainStep)

\* ---------------------------------------------------------- claims on train
BatchesPerEpoch == Len(X_train) \div minibatch_size

InEpoch == pc \in {"batches", "lossgrad", "update"}

MetricsLengthIs(n) ==
    /\ Len(epoch_loss) = n
    /\ Len(epoch_train_acc) = n
    /\ Len(epoch_valid_acc) = n

\* new is old with one entry appended.
IsOneLonger(old, new) ==
    Len(new) = Len(old) + 1 /\ SubSeq(new, 1, Len(old)) = old

C7_OnReturn ==
    /\ pc = "done" => (e = num_epochs /\ MetricsLengthIs(num_epochs))
    /\ pc = "epoch" => MetricsLengthIs(e)
    /\ InEpoch => MetricsLengthIs(e - 1)
    /\ e <= num_epochs

C7_AppendStep ==
    Len(epoch_loss') > Len(epoch_loss)
    => /\ Len(yielded) = BatchesPerEpoch
       /\ n_updates = e * BatchesPerEpoch
       /\ IsOneLonger(epoch_loss, epoch_loss')
       /\ IsOneLonger(epoch_train_acc, epoch_train_acc')
       /\ IsOneLonger(epoch_valid_acc, epoch_valid_acc')

PermutationsOf(ps) == [k \in 1..Len(ps) |-> ps[k].perm]

\* C8 as stated: a second run whose model was constructed with the first
\* run's initialization seed (same data, epoch count, batch sizes and
\* learning rate) starts from the first run's initial weights, draws the first
\* run's shuffle permutations and returns with the first run's parameters.
C8_SameInitSeed ==
    (run = 2 /\ random_seed = prev.random_seed)
    => /\ init_params = prev.init_params
       /\ pc = "done" => /\ params = prev.params
                         /\ PermutationsOf(perms) = PermutationsOf(prev.perms)

\* C8: a second run whose model was constructed with the first run's
\* initialization seed AND that was entered with the global NumPy stream
\* seeded as before the first run (same data, epoch count, batch sizes and
\* learning rate) starts from the first run's initial weights, draws epoch by
\* epoch the first run's shuffle permutations, and returns with the first
\* run's parameters and losses.
C8_SameSeeds ==
    (run = 2 /\ random_seed = prev.random_seed /\ shuffle_seed = prev.shuffle_seed)
    => /\ init_params = prev.init_params
       /\ \A k \in 1..Len(perms) : perms[k].perm = prev.perms[k].perm
       /\ pc = "done" => /\ params = prev.params
                         /\ PermutationsOf(perms) = PermutationsOf(prev.perms)
                         /\ epoch_loss = prev.epoch_loss
                         /\ n_updates = prev.n_updates

\* Both runs had the same two seeds, trained for two epochs that shuffled
\* differently, and moved the parameters.
C8_Witness ==
    /\ run = 2 /\ pc = "done"
    /\ random_seed = prev.random_seed /\ shuffle_seed = prev.shuffle_seed
    /\ num_epochs = 2 /\ n_updates >= 2
    /\ perms[1].perm # perms[2].perm
    /\ params # init_params

Shape(p) ==
    [weight_in |-> <<Len(p.weight_in), {Len(p.weight_in[i]) : i \in 1..Len(p.weight_in)}>>,
     bias_in |-> Len(p.bias_in),
     weight_out |-> <<Len(p.weight_out), {Len(p.weight_out[i]) : i \in 1..Len(p.weight_out)}>>,
     bias_out |-> Len(p.bias_out)]

C9_ShapesFixed ==
    /\ DOMAIN params = {"weight_in", "bias_in", "weight_out", "bias_out"}
    /\ Shape(params) = [weight_in |-> <<NumFeatures, {NumHidden}>>,
                        bias_in |-> NumHidden,
                        weight_out |-> <<NumHidden, {NumLabels}>>,
                        bias_out |-> NumLabels]

C9_WriteStep ==
    params' # params
    => \/ pc = "update" /\ pc' = "batches" /\ n_updates' = n_updates + 1
       \/ run' # run /\ params' = init_params'

\* C9: in every state the Parameter Set holds the four arrays with the shapes
\* the constructor gave them, and a step changes a parameter only if it is
\* the optimizer's update step (or the construction of the second run's
\* model): creating and advancing the mini-batch generator, the loss and
\* gradient computation, and both per-epoch evaluations with their forward
\* passes leave all four arrays as they were.
C9_SingleWriter == []C9_ShapesFixed /\ [][C9_WriteStep]_vars

\* An epoch with updates, generation and both evaluations is over, and the
\* parameters are no longer the initial ones.
C9_Witness ==
    /\ pc = "epoch" /\ e >= 1 /\ n_updates >= 2 /\ MetricsLengthIs(e)
    /\ params # init_params

\* Mini-batches whose loss-and-gradient computation is finished.
BatchesFinished ==
    (e - 1) * BatchesPerEpoch
    + (IF pc \in {"lossgrad", "update"} THEN Len(yielded) - 1 ELSE Len(yielded))

C10_Counted ==
    /\ (InEpoch \/ (pc = "epoch" /\ e >= 1)) =>
          n_updates = BatchesFinished
    /\ pc = "update" => grads = TwoLayerNN_loss(params, Mini.X, Mini.y).grads

C10_Step ==
    /\ pc = "update" =>
          /\ pc' = "batches"
          /\ n_updates' = n_updates + 1
          /\ params'.weight_in
               = MatSub(params.weight_in, MatScale(learning_rate, grads.weight_in))
          /\ params'.bias_in
               = VecSub(params.bias_in, VecScale(learning_rate, grads.bias_in))
          /\ params'.weight_out
               = MatSub(params.weight_out, MatScale(learning_rate, grads.weight_out))
          /\ params'.bias_out
               = VecSub(params.bias_out, VecScale(learning_rate, grads.bias_out))
    /\ (pc = "lossgrad" /\ pc' = "update") =>
          /\ params' = params
          /\ grads' = TwoLayerNN_loss(params, Mini.X, Mini.y).grads
    /\ (pc = "batches" /\ pc' = "lossgrad") =>
          /\ params' = params
          /\ Len(yielded') = Len(yielded) + 1
    /\ (n_updates' # n_updates /\ run' = run) => pc = "update"

\* C10: the steps of train follow one another in one order: a mini-batch is
\* yielded, then its loss and gradients are computed from the parameters as
\* they are at that moment, then the update sets each of the four parameters
\* p to p - learning_rate * grad[p] with exactly those gradients, and only
\* then is the next mini-batch yielded; nothing changes the parameters
\* between an update and the next forward pass, so the forward pass of
\* mini-batch k+1 reads what the update of mini-batch k wrote; and the number
\* of updates is always the number of mini-batches whose update step has run:
\* one update per mini-batch.
C10_OrderedUpdates == []C10_Counted /\ [][C10_Step]_vars

\* The second mini-batch of an epoch is about to be pushed through the
\* network, whose parameters the first mini-batch's update has changed.
C10_Witness ==
    /\ pc = "lossgrad" /\ Len(yielded) = 2 /\ n_updates >= 1
    /\ params # init_params

\* ------------------------------------------- claims on train with bad data
\* The mini-batch yielded by the step being taken.
NextMini == yielded'[Len(yielded')]

C11_UpdateAfterSuccess ==
    pc = "update" =>
       /\ int_to_onehot(Mini.y, NumLabels).err = "none"
       /\ TwoLayerNN_forward(params, Mini.X).err = "none"
       /\ grads # <<>>

C11_Step ==
    /\ (pc = "batches" /\ Len(yielded') = Len(yielded) + 1
        /\ int_to_onehot(NextMini.y, NumLabels).err # "none")
       => /\ pc' = "raised"
          /\ raised' = int_to_onehot(NextMini.y, NumLabels).err
          /\ params' = params /\ n_updates' = n_updates
          /\ n_updates = (e - 1) * BatchesPerEpoch + Len(yielded)
    /\ (pc = "lossgrad" /\ TwoLayerNN_loss(params, Mini.X, Mini.y).err # "none")
       => /\ pc' = "raised"
          /\ raised' = TwoLayerNN_loss(params, Mini.X, Mini.y).err
          /\ params' = params /\ n_updates' = n_updates /\ grads' = grads
          /\ n_updates = (e - 1) * BatchesPerEpoch + Len(yielded) - 1

\* C11: when encoding the labels of a mini-batch or its forward/backward pass
\* raises (a label the encoder cannot index, rows with the wrong number of
\* features), the very next step leaves train with that error: the
\* parameters and the update count stay as the earlier mini-batches' updates
\* left them, no update follows, and the update step is only ever reached
\* after the mini-batch's encoding and pass succeeded.
C11_FailedStepAborts == []C11_UpdateAfterSuccess /\ [][C11_Step]_vars

\* The second mini-batch of an epoch held a label out of range: train was left
\* with IndexError after exactly one update.
C11_Witness ==
    /\ pc = "raised" /\ raised = "IndexError"
    /\ Len(yielded) = 2 /\ n_updates = 1 /\ e = 1
    /\ params # init_params

\* ------------------------------------------------------ mse_loss on its own
\* Score arrays of n rows and c columns: every one-hot matrix, and arrays of
\* halves between -3/2 and 3/2 drawn from a stream.
ScoreValue(s) == ((s % 7) - 3) * (Scale \div 2)

ScoreArray(s, n, c) ==
    Mat([i \in 1..n |-> [j \in 1..c |-> ScoreValue(StreamAfter(s, (i - 1) * c + j))]])

LossScores(n, c) ==
    {int_to_onehot(t, c).ary : t \in [1..n -> 0..(c - 1)]}
    \cup {ScoreArray(s, n, c) : s \in 0..(StreamModulus - 1)}

InitLoss ==
    /\ \E n \in 0..MaxLossN : \E c \in 1..MaxLossC :
         \E t \in [1..n -> 0..(c - 1)] : \E sc \in LossScores(n, c) :
            call_args = [targets |-> t, probas |-> sc, num_labels |-> c]
    /\ call_pc = "mse_loss" /\ call_ret = <<>> /\ call_trace = <<>>
    /\ X_train = <<>> /\ y_train = <<>> /\ X_valid = <<>> /\ y_valid = <<>>
    /\ EncOff /\ LoopOff /\ EvalOff /\ TrainOff
    /\ np_random = 0 /\ params = NoParams

\* One call mse_loss(targets, probas, num_labels).
LossCall ==
    /\ call_pc = "mse_loss"
    /\ call_ret' = mse_loss(call_args.targets, call_args.probas,
                            call_args.num_labels)
    /\ call_trace' = Append(call_trace, "mse_loss")
    /\ call_pc' = "returned"
    /\ UNCHANGED <<call_args, encVars, dataVars, loopVars, evalVars, trainVars,
                   np_random, params>>

NextLoss == LossCall

SpecLoss == InitLoss /\ [][NextLoss]_vars

\* C12: whenever mse_loss returns a value, the value is not negative, and it
\* is exactly 0 when the scores are exactly the one-hot matrix of the labels.
C12_LossNonNegative ==
    (call_pc = "returned" /\ call_trace = <<"mse_loss">> /\ call_ret.err = "none")
    => /\ ~RLess(call_ret.loss, R0)
       /\ call_args.probas
            = int_to_onehot(call_args.targets, call_args.num_labels).ary
          => call_ret.loss = R0

\* mse_loss returned 0 for two examples of different classes whose scores are
\* their one-hot rows.
C12_Witness ==
    /\ call_pc = "returned" /\ call_trace = <<"mse_loss">>
    /\ call_args.targets = <<1, 0>> /\ call_args.num_labels = 2
    /\ call_args.probas = <<<<R0, R1>>, <<R1, R0>>>>
    /\ call_ret.err = "none" /\ call_ret.loss = R0

\* ----------------------------------------------- TwoLayerNN.loss on its own
\* Models whose weights come from the constructor and whose biases have been
\* moved to 0 or 1 entry by entry.
BiasVectors(n) == [1..n -> {R0, R1}]

LossModels ==
    {[TwoLayerNN_init(NumFeatures, NumHidden, NumLabels, seed)
        EXCEPT !.bias_in = bi, !.bias_out = bo] :
       seed \in 0..MaxSeed,
       bi \in {Zeros(NumHidden), Vec([j \in 1..NumHidden |-> R1])},
       bo \in BiasVectors(NumLabels)}

\* A mini-batch of n feature rows with entries -1, 0 and 1.
BatchX(s, n) == NormalArray(s, 0, n, NumFeatures)

InitLossGrad ==
    /\ params \in LossModels
    /\ \E n \in 1..MaxLossN : \E s \in 0..(StreamModulus - 1) :
         \E t \in [1..n -> 0..(NumLabels - 1)] :
            call_args = [X |-> BatchX(s, n), y |-> t]
    /\ call_pc = "loss" /\ call_ret = <<>> /\ call_trace = <<>>
    /\ X_train = <<>> /\ y_train = <<>> /\ X_valid = <<>> /\ y_valid = <<>>
    /\ EncOff /\ LoopOff /\ EvalOff /\ TrainOff
    /\ np_random = 0

\* loss, grads = tnn.loss(X, y)
LossGradCall ==
    /\ call_pc = "loss"
    /\ \E r \in {TwoLayerNN_loss(params, call_args.X, call_args.y)} :
          call_ret' = r /\ params' = r.nnet
    /\ call_trace' = Append(call_trace, "loss")
    /\ call_pc' = "returned"
    /\ UNCHANGED <<call_args, encVars, dataVars, loopVars, evalVars, trainVars,
                   np_random>>

NextLossGrad == LossGradCall

SpecLossGrad == InitLossGrad /\ [][NextLossGrad]_vars

AllZeroVec(v) == \A j \in 1..Len(v) : v[j] = R0

AllZeroMat(A) == \A i \in 1..Len(A) : AllZeroVec(A[i])

LayerValue(s) == RInt((s % 5) - 2)

LayerArray(s, drawn, rows, cols) ==
    Mat([i \in 1..rows |->
           [j \in 1..cols |-> LayerValue(StreamAfter(s, drawn + (i - 1) * cols + j))]])

LayerVector(s, drawn, n) == Vec([j \in 1..n |-> LayerValue(StreamAfter(s, drawn + j))])

\* The arguments of a forward call followed by the matching backward call, as
\* in the notebook's test cells: x of n-by-d, w of d-by-m, b of m entries, and
\* the upstream gradient dout, of x's shape for the ReLU layer and of n-by-m
\* for the affine and the fused layer.  The affine and the fused layer get at
\* least one row (an array without rows has no column count here).
LayerArgs(layer, n, d, m, s, t) ==
    [layer |-> layer,
     x |-> LayerArray(s, 0, n, d),
     w |-> LayerArray(s, n * d, d, m),
     b |-> LayerVector(s, n * d + d * m, m),
     dout |-> IF layer = "relu" THEN LayerArray(t, 0, n, d)
              ELSE LayerArray(t, 0, n, m)]

InitLayers ==
    /\ \E layer \in {"relu", "affine", "affine_relu"} :
         \E n \in 0..MaxLayerN : \E d \in 1..MaxLayerD : \E m \in 1..MaxLayerM :
           \E s \in 0..(StreamModulus - 1) : \E t \in 0..(StreamModulus - 1) :
              /\ layer = "relu" \/ n >= 1
              /\ call_args = LayerArgs(layer, n, d, m, s, t)
    /\ call_pc = "forward" /\ call_ret = <<>> /\ call_trace = <<>>
    /\ X_train = <<>> /\ y_train = <<>> /\ X_valid = <<>> /\ y_valid = <<>>
    /\ EncOff /\ LoopOff /\ EvalOff /\ TrainOff
    /\ np_random = 0 /\ params = NoParams

LayerFrame ==
    UNCHANGED <<call_args, encVars, dataVars, loopVars, evalVars, trainVars,
                np_random, params>>

\* out, cache = relu_forward(x)
ReluForwardCall ==
    /\ call_pc = "forward" /\ call_args.layer = "relu"
    /\ call_ret' = [fwd |-> relu_forward(call_args.x)]
    /\ call_trace' = Append(call_trace, "relu_forward")
    /\ call_pc' = "backward"
    /\ LayerFrame

\* dx = relu_backward(dout, cache)
ReluBackwardCall ==
    /\ call_pc = "backward" /\ call_args.layer = "relu"
    /\ call_ret' = [fwd |-> call_ret.fwd,
                    bwd |-> [dx |-> relu_backward(call_args.dout, call_ret.fwd.cache)]]
    /\ call_trace' = Append(call_trace, "relu_backward")
    /\ call_pc' = "returned"
    /\ LayerFrame

\* out, cache = affine_forward(x, w, b)
AffineForwardCall ==
    /\ call_pc = "forward" /\ call_args.layer = "affine"
    /\ call_ret' = [fwd |-> affine_forward(call_args.x, call_args.w, call_args.b)]
    /\ call_trace' = Append(call_trace, "affine_forward")
    /\ call_pc' = "backward"
    /\ LayerFrame

\* dx, dw, db = affine_backward(dout, cache)
AffineBackwardCall ==
    /\ call_pc = "backward" /\ call_args.layer = "affine"
    /\ call_ret' = [fwd |-> call_ret.fwd,
                    bwd |-> affine_backward(call_args.dout, call_ret.fwd.cache)]
    /\ call_trace' = Append(call_trace, "affine_backward")
    /\ call_pc' = "returned"
    /\ LayerFrame

\* out, cache = affine_relu_forward(x, w, b)
FusedForwardCall ==
    /\ call_pc = "forward" /\ call_args.layer = "affine_relu"
    /\ call_ret' = [fwd |-> affine_relu_forward(call_args.x, call_args.w,
                                                call_args.b)]
    /\ call_trace' = Append(call_trace, "affine_relu_forward")
    /\ call_pc' = "backward"
    /\ LayerFrame

\* dx, dw, db = affine_relu_backward(dout, cache)
FusedBackwardCall ==
    /\ call_pc = "backward" /\ call_args.layer = "affine_relu"
    /\ call_ret' = [fwd |-> call_ret.fwd,
                    bwd |-> affine_relu_backward(call_args.dout, call_ret.fwd.cache)]
    /\ call_trace' = Append(call_trace, "affine_relu_backward")
    /\ call_pc' = "returned"
    /\ LayerFrame

NextLayers ==
    \/ ReluForwardCall
    \/ ReluBackwardCall
    \/ AffineForwardCall
    \/ AffineBackwardCall
    \/ FusedForwardCall
    \/ FusedBackwardCall

SpecLayers == InitLayers /\ [][NextLayers]_vars

\* ------------------------------------------------ claims on the layer functions
LayerReturned(layer) == call_pc = "returned" /\ call_args.layer = layer

ArgN == Len(call_args.x)

ArgD == Len(call_args.w)

ArgM == Len(call_args.b)

\* C14: relu_backward(dout, cache = x) returns an array of dout's shape whose
\* entry is exactly dout's entry wherever x > 0 and exactly 0 wherever x <= 0,
\* also where x = 0.
C14_ReluBackward ==
    LayerReturned("relu")
    => /\ Len(call_ret.bwd.dx) = ArgN
       /\ \A i \in 1..ArgN :
             /\ Len(call_ret.bwd.dx[i]) = Len(call_args.x[i])
             /\ \A j \in 1..Len(call_args.x[i]) :
                   /\ call_args.x[i][j] > R0
                        => call_ret.bwd.dx[i][j] = call_args.dout[i][j]
                   /\ call_args.x[i][j] <= R0 => call_ret.bwd.dx[i][j] = R0

\* One row holds a positive and a zero input, both with a non-zero upstream
\* gradient, and the other row a negative input with a non-zero upstream
\* gradient.
C14_Witness ==
    /\ LayerReturned("relu") /\ ArgN = 2 /\ Len(call_args.x[1]) = 2
    /\ \E i, j, k, l, g, h \in 1..2 :
          /\ call_args.x[i][j] > R0 /\ call_args.dout[i][j] # R0
          /\ call_args.x[k][l] = R0 /\ call_args.dout[k][l] # R0
          /\ call_args.x[g][h] < R0 /\ call_args.dout[g][h] # R0

\* sum(dout * out) for an array out of dout's shape.
WeightedSum(dout, out) ==
    RSum(Vec([i \in 1..Len(out) |->
                RSum(Vec([j \in 1..Len(out[i]) |-> RMul(dout[i][j], out[i][j])]))]))

\* sum(dout * (x.w + b)): the scalar whose gradients affine_backward returns.
Objective(x, w, b) == WeightedSum(call_args.dout, affine_forward(x, w, b).out)

\* A with 1 added to entry (i, j); v with 1 added to entry j.
BumpMat(A, i, j) == [A EXCEPT ![i][j] = RAdd(@, R1)]

BumpVec(v, j) == [v EXCEPT ![j] = RAdd(@, R1)]

\* C15: for x of N-by-D, w of D-by-M, b of M entries and dout of N-by-M,
\* affine_backward on the cache of affine_forward(x, w, b) returns
\* dx = dout.w^T (N-by-D), dw = x^T.dout (D-by-M) and db = the column sums of
\* dout (M entries), entry by entry, and each entry is the change of
\* sum(dout * (x.w + b)) when the matching entry of x, w or b grows by 1 (the
\* sum is linear in each of them).
C15_AffineBackward ==
    LayerReturned("affine")
    => \E base \in {Objective(call_args.x, call_args.w, call_args.b)} :
       LET x == call_args.x
           w == call_args.w
           b == call_args.b
           dout == call_args.dout
           g == call_ret.bwd
       IN  /\ call_ret.fwd.err = "none"
           /\ call_ret.fwd.cache = [x |-> x, w |-> w, b |-> b]
           /\ Len(g.dx) = ArgN /\ Len(g.dw) = ArgD /\ Len(g.db) = ArgM
           /\ \A i \in 1..ArgN :
                 /\ Len(g.dx[i]) = ArgD
                 /\ \A d \in 1..ArgD :
                       /\ g.dx[i][d]
                            = RSum(Vec([j \in 1..ArgM |-> RMul(dout[i][j], w[d][j])]))
                       /\ g.dx[i][d]
                            = RSub(Objective(BumpMat(x, i, d), w, b), base)
           /\ \A d \in 1..ArgD :
                 /\ Len(g.dw[d]) = ArgM
                 /\ \A j \in 1..ArgM :
                       /\ g.dw[d][j]
                            = RSum(Vec([i \in 1..ArgN |-> RMul(x[i][d], dout[i][j])]))
                       /\ g.dw[d][j]
                            = RSub(Objective(x, BumpMat(w, d, j), b), base)
           /\ \A j \in 1..ArgM :
                 /\ g.db[j] = RSum(Vec([i \in 1..ArgN |-> dout[i][j]]))
                 /\ g.db[j] = RSub(Objective(x, w, BumpVec(b, j)), base)

\* A 2-by-2 input with 2-by-2 weights: none of the three gradients is zero
\* and dx differs from dout.
C15_Witness ==
    /\ LayerReturned("affine") /\ ArgN = 2 /\ ArgD = 2 /\ ArgM = 2
    /\ ~AllZeroMat(call_ret.bwd.dx) /\ ~AllZeroMat(call_ret.bwd.dw)
    /\ ~AllZeroVec(call_ret.bwd.db)
    /\ call_ret.bwd.dx # call_args.dout

\* The affine layer's output x.w + b, entry by entry.
PreActivation ==
    Mat([i \in 1..ArgN |->
           [j \in 1..ArgM |->
              RAdd(RSum(Vec([k \in 1..ArgD |->
                               RMul(call_args.x[i][k], call_args.w[k][j])])),
                   call_args.b[j])]])

\* dout where the array pre is > 0, and 0 elsewhere.
Masked(dout, pre) ==
    Mat([i \in 1..Len(dout) |->
           [j \in 1..Len(dout[i]) |-> IF pre[i][j] > R0 THEN dout[i][j] ELSE R0]])

MaskedDout == Masked(call_args.dout, PreActivation)

\* C16: affine_relu_forward returns the ReLU of the affine layer's output,
\* with the cache pair (affine cache (x, w, b), ReLU cache = the affine
\* layer's output); affine_relu_backward first masks dout with the ReLU cache
\* and then pushes the masked gradient through the affine layer's backward
\* pass with the affine cache: its result is affine_backward of relu_backward
\* of dout, and db is the column sums of the masked dout, dx the masked dout
\* times w^T.
C16_FusedReverseOrder ==
    LayerReturned("affine_relu")
    => \E pre \in {PreActivation} : \E md \in {Masked(call_args.dout, pre)} :
       LET c == call_ret.fwd.cache
           g == call_ret.bwd
       IN  /\ c.fc_cache = [x |-> call_args.x, w |-> call_args.w, b |-> call_args.b]
           /\ c.relu_cache = pre
           /\ \A i \in 1..ArgN : \A j \in 1..ArgM :
                 call_ret.fwd.out[i][j] = (IF pre[i][j] > R0 THEN pre[i][j] ELSE R0)
           /\ g = affine_backward(relu_backward(call_args.dout, c.relu_cache),
                                  c.fc_cache)
           /\ \A j \in 1..ArgM :
                 g.db[j] = RSum(Vec([i \in 1..ArgN |-> md[i][j]]))
           /\ \A i \in 1..ArgN : \A d \in 1..ArgD :
                 g.dx[i][d]
                   = RSum(Vec([j \in 1..ArgM |-> RMul(md[i][j], call_args.w[d][j])]))

\* The ReLU is active for one output and inactive for another, both with a
\* non-zero upstream gradient, so the mask changes what the affine backward
\* pass receives.
C16_Witness ==
    /\ LayerReturned("affine_relu") /\ ArgN = 2 /\ ArgM = 2
    /\ \E md \in {MaskedDout} : md # call_args.dout /\ ~AllZeroMat(md)
    /\ ~AllZeroMat(call_ret.bwd.dx)

\* ------------------------------------------------------------- C17: caches
\* The latest call of nnet.loss(features, targets) by train.
LastCall == cache_log.last

\* The caches of the latest training call belong to its own mini-batch and to
\* the parameters it was called with: the first layer's affine cache holds the
\* mini-batch and weight_in, bias_in; its ReLU cache and the second layer's
\* cache hold what the first layer computed from them.
FreshCaches ==
    \E l1 \in {affine_relu_forward(LastCall.X, LastCall.params.weight_in,
                                   LastCall.params.bias_in)} :
        /\ Len(LastCall.created) = 2
        /\ LastCall.created[1].fc_cache = [x |-> LastCall.X,
                                     w |-> LastCall.params.weight_in,
                                     b |-> LastCall.params.bias_in]
        /\ LastCall.created[1] = l1.cache
        /\ LastCall.created[2] = [x |-> l1.out,
                                  w |-> LastCall.params.weight_out,
                                  b |-> LastCall.params.bias_out]

\* Each created cache is handed to exactly one backward call, the second
\* layer's first.
ConsumedOnce ==
    /\ Len(LastCall.consumed) = 2
    /\ \A i \in 1..2 :
          Cardinality({j \in 1..2 : LastCall.consumed[j] = LastCall.created[i]}) = 1
    /\ LastCall.consumed = <<LastCall.created[2], LastCall.created[1]>>

\* The number of calls of nnet.loss(features, targets) that returned.
LossCallsReturned == n_updates + (IF pc = "update" THEN 1 ELSE 0)

C17_LastCallConsumesItsOwn ==
    /\ cache_log.consumed = 2 * LossCallsReturned
    /\ cache_log.consumed <= cache_log.created
    /\ pc = "update" => LastCall # <<>> /\ LastCall.X = yielded[Len(yielded)].X
    /\ LastCall # <<>> => FreshCaches /\ ConsumedOnce

\* The evaluation at the end of an epoch creates two caches per batch and
\* consumes none; a training call creates two and consumes two.
C17_Step ==
    /\ pc = "batches" /\ pc' \in {"epoch", "raised"} =>
          /\ cache_log'.consumed = cache_log.consumed
          /\ cache_log'.last = cache_log.last
          /\ cache_log'.created = cache_log.created
                + 2 * (Len(X_train) \div eval_size)
                + (IF Len(X_train) >= eval_size
                   THEN 2 * (Len(X_valid) \div eval_size) ELSE 0)
    /\ pc = "lossgrad" =>
          /\ cache_log'.created = cache_log.created + 2
          /\ cache_log'.consumed = cache_log.consumed + 2

C18_SmallSetRunsAllEpochs ==
    Len(X_train) < minibatch_size =>
        /\ n_updates = 0 /\ yielded = <<>>
        /\ params = init_params
        /\ pc # "raised"
        /\ pc = "done" => e = num_epochs /\ Len(epoch_loss) = num_epochs

\* -------------------------------------- C19: evaluation of a small data set
\* C19: compute_mse_and_acc on a data set with fewer examples than its batch
\* size processes no batch and raises (mse/(i+1) reads the unbound loop
\* counter) instead of returning a pair; on a data set with at least one full
\* batch it returns a pair whose accuracy lies between 0 and 1.
C19_SmallSetRaises ==
    ev_batched # Pending =>
        /\ Len(X_valid) < eval_size =>
              /\ ev_batched.err = "UnboundLocalError"
              /\ ev_batched.batches = 0 /\ ev_batched.num_examples = 0
        /\ Len(X_valid) >= eval_size =>
              /\ ev_batched.err = "none"
              /\ ev_batched.batches >= 1
              /\ R0 <= ev_batched.acc /\ ev_batched.acc <= R1

\* A non-empty data set smaller than one batch has been evaluated.
C19_Witness ==
    /\ ev_batched # Pending
    /\ Len(X_valid) >= 1 /\ Len(X_valid) < eval_size
    /\ ev_batched.err = "UnboundLocalError"

\* ------------------------------------------- C20: one shared shuffle stream
\* The stream s after one permutation of n indices was drawn from it.
Drawn(n, s) == Shuffle(Arange(n), s).stream

\* The global stream when epoch k of train starts its generator, given the
\* stream when epoch k - 1 started its own: the training generator, the
\* evaluation on the training set and the evaluation on the validation set
\* have each drawn one permutation, in this order.
AfterEpoch(s) ==
    Drawn(Len(X_valid), Drawn(Len(X_train), Drawn(Len(X_train), s)))

\* C20: training and evaluation advance one shared global stream: the first
\* epoch shuffles from the stream as it was seeded, the construction of the
\* model in between notwithstanding, and each later epoch shuffles from the
\* stream as the previous epoch's training shuffle and its two evaluation
\* calls, one permutation each, left it.
C20_SharedStream ==
    /\ perms # <<>> => perms[1].before = SeedStream(shuffle_seed)
    /\ \A k \in 1..Len(perms) :
          /\ perms[k].perm = Shuffle(Arange(Len(X_train)), perms[k].before).perm
          /\ k > 1 => perms[k].before = AfterEpoch(perms[k - 1].before)
    /\ pc = "epoch" /\ perms # <<>> =>
          np_random = AfterEpoch(perms[Len(perms)].before)
    /\ pc \in {"batches", "lossgrad", "update"} =>
          np_random = Drawn(Len(X_train), perms[Len(perms)].before)

\* In the second run the second epoch shuffled differently than it would
\* have, had the two evaluation calls of the first epoch drawn nothing.
C20_Witness ==
    /\ run = 2 /\ Len(perms) = 2
    /\ random_seed # shuffle_seed
    /\ perms[2].perm
          # Shuffle(Arange(Len(X_train)),
                    Drawn(Len(X_train), perms[1].before)).perm

====
